---- MODULE Spec2Model ----
(***************************************************************************)
(* Model of nosql/execute_cypher.py: the Neo4jQuerier benchmark harness    *)
(* (drop_indexes, create_indexes, measure_query_time, demonstrate_queries, *)
(* close) and the program main().  One action per session.run / call step. *)
(* The database engine and the driver are the environment: every statement *)
(* sent with session.run either takes effect as Cypher defines it or fails *)
(* (nondeterministic fault).                                               *)
(***************************************************************************)
EXTENDS Integers, Sequences, FiniteSets

\* Number of top-level calls a client of the class makes on one harness.
MaxCalls == 3

\* ---------------------------------------------------------------- data --

\* The index names of the DROP statements of drop_indexes, in code order.
DropOrderMissingOne ==
    << "book_title_index", "book_year_index", "book_format_index",
       "book_lang_pages_index" >>

DropOrder ==
    << "book_title_index", "book_year_index", "book_format_index",
       "book_lang_pages_index", "book_ebook_index" >>

\* The index names of the CREATE statements of create_indexes, in code order.
\* CreateOrder[1] is the full-text index (plain CREATE FULLTEXT INDEX); the
\* others are CREATE INDEX ... IF NOT EXISTS.
CreateOrder ==
    << "book_title_index", "book_year_index", "book_format_index",
       "book_lang_pages_index", "book_ebook_index" >>

FulltextIndex == CreateOrder[1]

IndexNames == { CreateOrder[k] : k \in DOMAIN CreateOrder }

\* The names of the `queries` dict of demonstrate_queries, in insertion order.
queries ==
    << "basic search on attribute value", "aggregation paperback",
       "aggregation hardcover", "aggregation ebook",
       "top n entities satisfying a criteria, sorted by an attribute",
       "group books by year of publication" >>

fulltext_query == "full text search"

NumQueries == Len(queries)

\* The two behaviours of a neo4j driver used after driver.close(): newer
\* drivers raise from driver.session(), older ones from session.run().
DriverApis == { "raise_on_session", "raise_on_run" }

Methods ==
    { "demonstrate_queries", "drop_indexes", "create_indexes",
      "measure_query_time" }

VARIABLES
    mode,         \* "main": the program main(); "client": a caller of the class
    driverApi,    \* which DriverApis behaviour the installed driver has
    harness,      \* "Unconstructed", "Open" (driver live), "Closed"
    db,           \* names of the indexes existing in the database
    pc,           \* control location
    top,          \* the method called by main / the client ("none" before)
    i,            \* position in the current statement list / query loop
    trace,        \* statements passed to session.run in the current call
    lastOk,       \* whether the last session.run succeeded
    lastLog,      \* what the last query step printed: "timing" / "error"
    caught,       \* an exception was caught and printed in the current call
    result,       \* "none", "running", "returned", "raised" (current call)
    raisedBy,     \* what raised out of the call: "session","create","query"
    faulted,      \* the environment failed some statement of the current call
    dropFailed,   \* some DROP of the current call failed
    createFailed, \* some CREATE of the current call failed
    startDb,      \* db when the current call started
    prev,         \* "create_clean": the previous call was a create_indexes
                  \* that returned with no environment fault; else "other"
    calls,        \* calls made by the client
    closeCount    \* number of close() calls

vars ==
    << mode, driverApi, harness, db, pc, top, i, trace, lastOk, lastLog,
       caught, result, raisedBy, faulted, dropFailed, createFailed, startDb,
       prev, calls, closeCount >>

Last(s) == s[Len(s)]

Stmt(kind, stage, name, n) == [k |-> kind, st |-> stage, name |-> name, n |-> n]

\* ------------------------------------------------- database statements --

\* DROP INDEX <name> IF EXISTS
DropIfExists(d, name) == d \ {name}

\* CREATE FULLTEXT INDEX <name> ... : rejected when the name already exists.
CreateFulltextOk(d, name) == name \notin d

\* CREATE INDEX <name> IF NOT EXISTS ...
CreateIfNotExists(d, name) == d \cup {name}

\* session.run(stmt): reaches the database only on a live driver, and fails
\* when the environment fails it.
RunOk(fault) == harness = "Open" /\ ~fault

\* driver.session() on a closed driver raises on the newer driver API.
SessionOk == ~(harness = "Closed" /\ driverApi = "raise_on_session")

\* measure_query_time(query): TRUE when it returns (rows, time), FALSE when
\* session.run raises.  The full-text procedure fails on a missing index.
measure_query_time(q, fault) ==
    /\ SessionOk
    /\ RunOk(fault)
    /\ (q = fulltext_query => FulltextIndex \in db)

\* ------------------------------------------------------- control flow --

\* The order of the steps of demonstrate_queries.
SuiteStagesCreateFirst ==
    << "drop_indexes", "create_indexes", "before", "after", "fulltext" >>

SuiteStages ==
    << "drop_indexes", "before", "create_indexes", "after", "fulltext" >>

\* The control location at which a method or a step of the suite starts.
StagePc(stage) ==
    CASE stage = "drop_indexes" -> "drop_session"
      [] stage = "create_indexes" -> "create_session"
      [] stage = "measure_query_time" -> "measure"
      [] OTHER -> stage

EntryPc(op) ==
    IF op = "demonstrate_queries" THEN StagePc(SuiteStages[1]) ELSE StagePc(op)

\* main(): try: demonstrate_queries() finally: close()
MainAfterSuiteNoFinally(res) == IF res = "raised" THEN "done" ELSE "finally"

MainAfterSuite(res) == "finally"

\* The top-level call ends with `res`.
Finish(res) ==
    [ pc |-> IF mode = "main" THEN MainAfterSuite(res) ELSE "idle",
      result |-> res ]

StageIndex(stage) == CHOOSE k \in DOMAIN SuiteStages : SuiteStages[k] = stage

\* `stage` ends normally: the next step of demonstrate_queries, or the return
\* of the method when it was called directly or was the last step.
AfterStage(stage) ==
    IF top = "demonstrate_queries" /\ StageIndex(stage) < Len(SuiteStages)
    THEN [ pc |-> StagePc(SuiteStages[StageIndex(stage) + 1]),
           result |-> "running" ]
    ELSE Finish("returned")

\* create_indexes: the first statement after the session is opened.
CreateFirstStepNoDrop == "create_ftcreate"

CreateFirstStep == "create_ftdrop"

\* create_indexes: where control goes after the DROP of the full-text index
\* (the except clause prints and falls through).
AfterFtDropSkipOnError(ok) == IF ok THEN "create_ftcreate" ELSE "create_run"

AfterFtDrop(ok) == "create_ftcreate"

\* demonstrate_queries: the except clause around measure_query_time.
OnQueryErrorReraise == [ raises |-> TRUE, log |-> "error" ]

OnQueryError == [ raises |-> FALSE, log |-> "error" ]

\* ---------------------------------------------------------------- Init --

\* Before construction.  The database may hold any of the five indexes (left
\* by an earlier run); a statement that fails leaves the database unchanged.
Init ==
    /\ mode \in { "main", "client" }
    /\ driverApi \in DriverApis
    /\ harness = "Unconstructed"
    /\ db \in SUBSET IndexNames
    /\ pc = "start"
    /\ top = "none"
    /\ i = 1
    /\ trace = << >>
    /\ lastOk = TRUE
    /\ lastLog = "none"
    /\ caught = FALSE
    /\ result = "none"
    /\ raisedBy = "none"
    /\ faulted = FALSE
    /\ dropFailed = FALSE
    /\ createFailed = FALSE
    /\ startDb = db
    /\ prev = "other"
    /\ calls = 0
    /\ closeCount = 0

\* ------------------------------------------------------------- actions --

\* Bookkeeping at the start of a top-level call of method `op`.
Begin(op) ==
    /\ top' = op
    /\ pc' = EntryPc(op)
    /\ i' = 1
    /\ trace' = << >>
    /\ lastOk' = TRUE
    /\ lastLog' = "none"
    /\ caught' = FALSE
    /\ result' = "running"
    /\ raisedBy' = "none"
    /\ faulted' = FALSE
    /\ dropFailed' = FALSE
    /\ createFailed' = FALSE
    /\ startDb' = db
    /\ prev' = IF top = "create_indexes" /\ result = "returned" /\ ~faulted
               THEN "create_clean" ELSE "other"

\* Neo4jQuerier(uri, username, password): GraphDatabase.driver may raise.
Construct ==
    /\ pc = "start"
    /\ \E ok \in BOOLEAN :
          IF ok
          THEN /\ harness' = "Open"
               /\ pc' = IF mode = "main" THEN "main_try" ELSE "idle"
          ELSE /\ harness' = harness
               /\ pc' = "done"
    /\ UNCHANGED << mode, driverApi, db, top, i, trace, lastOk, lastLog,
                    caught, result, raisedBy, faulted, dropFailed,
                    createFailed, startDb, prev, calls, closeCount >>

\* main(): querier.demonstrate_queries() inside try.
MainCall ==
    /\ mode = "main"
    /\ pc = "main_try"
    /\ Begin("demonstrate_queries")
    /\ UNCHANGED << mode, driverApi, harness, db, calls, closeCount >>

\* A caller of the class invokes one of its methods.
ClientCall ==
    /\ mode = "client"
    /\ pc = "idle"
    /\ calls < MaxCalls
    /\ \E op \in Methods : Begin(op)
    /\ calls' = calls + 1
    /\ UNCHANGED << mode, driverApi, harness, db, closeCount >>

\* close(): self.driver.close().  In main() it is the finally clause, after
\* which a pending exception leaves the program.
close ==
    /\ \/ mode = "main" /\ pc = "finally" /\ pc' = "done" /\ calls' = calls
       \/ /\ mode = "client" /\ pc = "idle" /\ calls < MaxCalls
          /\ pc' = "idle" /\ calls' = calls + 1
    /\ harness' = "Closed"
    /\ closeCount' = closeCount + 1
    /\ top' = "close"
    /\ UNCHANGED << mode, driverApi, db, i, trace, lastOk, lastLog, caught,
                    result, raisedBy, faulted, dropFailed, createFailed,
                    startDb, prev >>

\* drop_indexes: `with self.driver.session() as session:` (outside the try).
drop_session ==
    /\ pc = "drop_session"
    /\ LET nxt == IF SessionOk THEN [ pc |-> "drop_run", result |-> "running" ]
                  ELSE Finish("raised")
       IN /\ pc' = nxt.pc
          /\ result' = nxt.result
          /\ raisedBy' = IF SessionOk THEN raisedBy ELSE "session"
          /\ faulted' = (faulted \/ ~SessionOk)
          /\ dropFailed' = (dropFailed \/ ~SessionOk)
    /\ i' = 1
    /\ UNCHANGED << mode, driverApi, harness, db, top, trace, lastOk, lastLog,
                    caught, createFailed, startDb, prev, calls, closeCount >>

\* drop_indexes: one session.run("DROP INDEX ... IF EXISTS") of the try block;
\* the first one that raises ends the block in the except clause (print).
drop_run ==
    /\ pc = "drop_run"
    /\ \E fault \in BOOLEAN :
        LET name == DropOrder[i]
            ok == RunOk(fault)
            nxt == IF ok /\ i < Len(DropOrder)
                   THEN [ pc |-> "drop_run", result |-> "running" ]
                   ELSE AfterStage("drop_indexes")
        IN /\ trace' = Append(trace, Stmt("drop", "drop_indexes", name, i))
           /\ lastOk' = ok
           /\ db' = IF ok THEN DropIfExists(db, name) ELSE db
           /\ caught' = (caught \/ ~ok)
           /\ faulted' = (faulted \/ ~ok)
           /\ dropFailed' = (dropFailed \/ ~ok)
           /\ pc' = nxt.pc
           /\ result' = nxt.result
           /\ i' = IF ok /\ i < Len(DropOrder) THEN i + 1 ELSE 1
    /\ UNCHANGED << mode, driverApi, harness, top, lastLog, raisedBy,
                    createFailed, startDb, prev, calls, closeCount >>

\* create_indexes: `with self.driver.session() as session:`.
create_session ==
    /\ pc = "create_session"
    /\ LET nxt == IF SessionOk
                  THEN [ pc |-> CreateFirstStep, result |-> "running" ]
                  ELSE Finish("raised")
       IN /\ pc' = nxt.pc
          /\ result' = nxt.result
          /\ raisedBy' = IF SessionOk THEN raisedBy ELSE "session"
          /\ faulted' = (faulted \/ ~SessionOk)
          /\ createFailed' = (createFailed \/ ~SessionOk)
    /\ i' = 1
    /\ UNCHANGED << mode, driverApi, harness, db, top, trace, lastOk, lastLog,
                    caught, dropFailed, startDb, prev, calls, closeCount >>

\* create_indexes: try: DROP INDEX book_title_index IF EXISTS / except: print.
create_ftdrop ==
    /\ pc = "create_ftdrop"
    /\ \E fault \in BOOLEAN :
        LET ok == RunOk(fault)
        IN /\ trace' = Append(trace,
                          Stmt("drop", "create_indexes", FulltextIndex, 1))
           /\ lastOk' = ok
           /\ db' = IF ok THEN DropIfExists(db, FulltextIndex) ELSE db
           /\ caught' = (caught \/ ~ok)
           /\ faulted' = (faulted \/ ~ok)
           /\ dropFailed' = (dropFailed \/ ~ok)
           /\ pc' = AfterFtDrop(ok)
    /\ i' = IF pc' = "create_run" THEN 2 ELSE 1
    /\ UNCHANGED << mode, driverApi, harness, top, lastLog, result, raisedBy,
                    createFailed, startDb, prev, calls, closeCount >>

\* create_indexes: try: CREATE FULLTEXT INDEX book_title_index / except: print.
create_ftcreate ==
    /\ pc = "create_ftcreate"
    /\ \E fault \in BOOLEAN :
        LET ok == RunOk(fault) /\ CreateFulltextOk(db, FulltextIndex)
        IN /\ trace' = Append(trace,
                          Stmt("create", "create_indexes", FulltextIndex, 1))
           /\ lastOk' = ok
           /\ db' = IF ok THEN db \cup {FulltextIndex} ELSE db
           /\ caught' = (caught \/ ~ok)
           /\ faulted' = (faulted \/ ~RunOk(fault))
           /\ createFailed' = (createFailed \/ ~ok)
    /\ pc' = "create_run"
    /\ i' = 2
    /\ UNCHANGED << mode, driverApi, harness, top, lastLog, result, raisedBy,
                    dropFailed, startDb, prev, calls, closeCount >>

\* create_indexes: one session.run("CREATE INDEX ... IF NOT EXISTS") of the
\* four that follow; they are in no try block, so a failure raises out of
\* create_indexes (and out of demonstrate_queries, which does not catch it).
create_run ==
    /\ pc = "create_run"
    /\ \E fault \in BOOLEAN :
        LET name == CreateOrder[i]
            ok == RunOk(fault)
            nxt == IF ~ok THEN Finish("raised")
                   ELSE IF i < Len(CreateOrder)
                   THEN [ pc |-> "create_run", result |-> "running" ]
                   ELSE AfterStage("create_indexes")
        IN /\ trace' = Append(trace, Stmt("create", "create_indexes", name, i))
           /\ lastOk' = ok
           /\ db' = IF ok THEN CreateIfNotExists(db, name) ELSE db
           /\ faulted' = (faulted \/ ~ok)
           /\ createFailed' = (createFailed \/ ~ok)
           /\ raisedBy' = IF ok THEN raisedBy ELSE "create"
           /\ pc' = nxt.pc
           /\ result' = nxt.result
           /\ i' = IF ok /\ i < Len(CreateOrder) THEN i + 1 ELSE 1
    /\ UNCHANGED << mode, driverApi, harness, top, lastLog, caught,
                    dropFailed, startDb, prev, calls, closeCount >>

\* demonstrate_queries: one iteration of a `for name, query in queries.items()`
\* loop (stage "before" or "after"): measure_query_time inside try/except.
QueryStep(stage) ==
    /\ pc = stage
    /\ \E fault \in BOOLEAN :
        LET ok == measure_query_time(queries[i], fault)
            raises == ~ok /\ OnQueryError.raises
            nxt == IF raises THEN Finish("raised")
                   ELSE IF i < NumQueries
                   THEN [ pc |-> stage, result |-> "running" ]
                   ELSE AfterStage(stage)
        IN /\ trace' = Append(trace, Stmt("query", stage, queries[i], i))
           /\ lastOk' = ok
           /\ lastLog' = IF ok THEN "timing" ELSE OnQueryError.log
           /\ caught' = (caught \/ (~ok /\ ~raises))
           /\ faulted' = (faulted \/ ~ok)
           /\ raisedBy' = IF raises THEN "query" ELSE raisedBy
           /\ pc' = nxt.pc
           /\ result' = nxt.result
           /\ i' = IF ~raises /\ i < NumQueries THEN i + 1 ELSE 1
    /\ UNCHANGED << mode, driverApi, harness, db, top, dropFailed,
                    createFailed, startDb, prev, calls, closeCount >>

before == QueryStep("before")

after == QueryStep("after")

\* demonstrate_queries: the full-text query, run once with its parameters.
fulltext ==
    /\ pc = "fulltext"
    /\ \E fault \in BOOLEAN :
        LET ok == measure_query_time(fulltext_query, fault)
            raises == ~ok /\ OnQueryError.raises
            nxt == IF raises THEN Finish("raised") ELSE AfterStage("fulltext")
        IN /\ trace' = Append(trace, Stmt("query", "fulltext", fulltext_query, 1))
           /\ lastOk' = ok
           /\ lastLog' = IF ok THEN "timing" ELSE OnQueryError.log
           /\ caught' = (caught \/ (~ok /\ ~raises))
           /\ faulted' = (faulted \/ ~ok)
           /\ raisedBy' = IF raises THEN "query" ELSE raisedBy
           /\ pc' = nxt.pc
           /\ result' = nxt.result
    /\ i' = 1
    /\ UNCHANGED << mode, driverApi, harness, db, top, dropFailed,
                    createFailed, startDb, prev, calls, closeCount >>

\* measure_query_time called directly: the exception reaches the caller.
measure ==
    /\ pc = "measure"
    /\ \E q \in { queries[k] : k \in DOMAIN queries } \cup { fulltext_query },
          fault \in BOOLEAN :
        LET ok == measure_query_time(q, fault)
            nxt == Finish(IF ok THEN "returned" ELSE "raised")
        IN /\ trace' = Append(trace, Stmt("query", "measure_query_time", q, 1))
           /\ lastOk' = ok
           /\ faulted' = (faulted \/ ~ok)
           /\ raisedBy' = IF ok THEN raisedBy ELSE "query"
           /\ pc' = nxt.pc
           /\ result' = nxt.result
    /\ UNCHANGED << mode, driverApi, harness, db, top, i, lastLog, caught,
                    dropFailed, createFailed, startDb, prev, calls,
                    closeCount >>

Next ==
    \/ Construct
    \/ MainCall
    \/ ClientCall
    \/ close
    \/ drop_session
    \/ drop_run
    \/ create_session
    \/ create_ftdrop
    \/ create_ftcreate
    \/ create_run
    \/ before
    \/ after
    \/ fulltext
    \/ measure

Spec == Init /\ [][Next]_vars

\* The program is a single thread of blocking calls: a step that can be taken
\* is taken (the engine answers every statement, with a result or an error).
LiveSpec == Spec /\ WF_vars(Next)

\* -------------------------------------------------------------- claims --

InSuite == top = "demonstrate_queries"

CallEnded == result \in { "returned", "raised" }

\* The positions of the statements of `trace` issued by `stage`.
IssuedBy(stage) == { a \in DOMAIN trace : trace[a].st = stage }

FtDrop == Stmt("drop", "create_indexes", FulltextIndex, 1)

FtCreate == Stmt("create", "create_indexes", FulltextIndex, 1)

\* The order of the steps that the suite is specified to follow.
SuiteRank(st) ==
    CASE st = "drop_indexes" -> 1
      [] st = "before" -> 2
      [] st = "create_indexes" -> 3
      [] st = "after" -> 4
      [] st = "fulltext" -> 5
      [] OTHER -> 0

\* C1: in every run of demonstrate_queries the statements are issued in the
\* order drop_indexes, before-phase queries, create_indexes, after-phase
\* queries, full-text query; the queries of a phase run in list order, each at
\* most once; a run that returns has run every query of both phases once and
\* the full-text query exactly once; and no after-phase or full-text query is
\* issued before the last CREATE of create_indexes.
C1_SuiteOrder ==
    InSuite =>
      /\ \A a, b \in DOMAIN trace :
            a < b => SuiteRank(trace[a].st) <= SuiteRank(trace[b].st)
      /\ \A a \in DOMAIN trace : SuiteRank(trace[a].st) > 0
      /\ \A a, b \in DOMAIN trace :
            (a < b /\ trace[a].k = "query" /\ trace[a].st = trace[b].st)
               => trace[a].n < trace[b].n
      /\ \A a \in IssuedBy("before") \cup IssuedBy("after") :
            trace[a].k = "query" /\ trace[a].name = queries[trace[a].n]
      /\ \A a \in IssuedBy("after") \cup IssuedBy("fulltext") :
            \E b \in 1..(a - 1) :
               trace[b] = Stmt("create", "create_indexes",
                               CreateOrder[Len(CreateOrder)], Len(CreateOrder))
      /\ \A a \in IssuedBy("before") : IssuedBy("drop_indexes") # {}
      /\ result = "returned" =>
            /\ \A st \in { "before", "after" } : \A n \in 1..NumQueries :
                  \E a \in IssuedBy(st) : trace[a].n = n
            /\ Cardinality(IssuedBy("fulltext")) = 1
            /\ Last(trace).st = "fulltext"

C1_Witness ==
    /\ InSuite /\ result = "returned"
    /\ Len(trace) = Len(DropOrder) + 1 + Len(CreateOrder) + 2 * NumQueries + 1

\* C2: in demonstrate_queries a failing query never aborts the suite: the
\* suite never raises because of a query; every query step prints a timing
\* when the query succeeds and an error when it fails; and a suite that is not
\* aborted by an index operation has attempted every query of both phases and
\* the full-text query.
C2_QueryFailuresIsolated ==
    InSuite =>
      /\ raisedBy # "query"
      /\ (trace # << >> /\ Last(trace).k = "query") =>
            /\ lastOk => lastLog = "timing"
            /\ ~lastOk => (lastLog = "error" /\ caught /\ raisedBy = "none")
      /\ (CallEnded /\ raisedBy = "none") =>
            /\ result = "returned"
            /\ Cardinality({ a \in DOMAIN trace : trace[a].k = "query" })
                  = 2 * NumQueries + 1

C2_Witness ==
    /\ InSuite /\ result = "returned" /\ harness = "Open"
    /\ caught /\ ~dropFailed /\ ~createFailed /\ ~lastOk

\* C3 (as claimed): a drop_indexes call on an open harness issues the drop of
\* every name, whether or not an earlier drop failed.
C3_DropIndexesTolerant ==
    (top = "drop_indexes" /\ CallEnded /\ harness = "Open") =>
       /\ result = "returned"
       /\ \A k \in DOMAIN DropOrder :
             \E a \in DOMAIN trace :
                trace[a].k = "drop" /\ trace[a].name = DropOrder[k]

\* C4 (as claimed): a create_indexes call on an open harness does not raise
\* and issues the create of every descriptor, whichever creates fail.
C4_CreateIndexesTolerant ==
    (top = "create_indexes" /\ CallEnded /\ harness = "Open") =>
       /\ result = "returned"
       /\ \A k \in DOMAIN CreateOrder :
             \E a \in DOMAIN trace :
                trace[a].k = "create" /\ trace[a].name = CreateOrder[k]

\* C5 (as claimed): in a demonstrate_queries run on an open harness in which
\* an index drop or create failed, the after phase still runs every query and
\* the full-text query is still run.
C5_IndexFailureNotFatal ==
    (InSuite /\ CallEnded /\ harness = "Open"
        /\ (dropFailed \/ createFailed)) =>
       /\ \A n \in 1..NumQueries : \E a \in IssuedBy("after") : trace[a].n = n
       /\ IssuedBy("fulltext") # {}

\* C6 (as claimed): the harness is Open or Closed, Closed only after close();
\* every method called on a Closed harness ends by raising to its caller,
\* with no error caught and printed on the way.
C6_ClosedHandleSurfaced ==
    /\ harness = "Closed" => closeCount >= 1
    /\ (harness = "Closed" /\ top \in Methods /\ CallEnded) =>
          (result = "raised" /\ ~caught)

\* C7: in main(), close() is never called twice, is eventually called once the
\* harness is constructed (whether demonstrate_queries returns or raises), the
\* harness stays closed, and no statement is issued after close().
C7_ConnectionReleased ==
    /\ [](mode = "main" => (closeCount <= 1 /\ (closeCount = 1 <=> harness = "Closed")))
    /\ ((mode = "main" /\ harness = "Open") ~> (closeCount = 1 /\ pc = "done"))
    /\ [][(mode = "main" /\ harness = "Closed")
             => (trace' = trace /\ harness' = "Closed")]_vars

C7_Witness ==
    /\ mode = "main" /\ pc = "done"
    /\ closeCount = 1 /\ result = "raised" /\ raisedBy = "create"

\* C8: in create_indexes the CREATE of the full-text index is always directly
\* preceded by the DROP of that index issued by create_indexes, the DROP is
\* always directly followed by the CREATE (also when the DROP failed), no
\* other CREATE is issued before them, and after a successful DROP the CREATE
\* runs with book_title_index absent.
C8_FulltextDropBeforeCreate ==
    /\ \A b \in DOMAIN trace :
          trace[b] = FtCreate => (b > 1 /\ trace[b - 1] = FtDrop)
    /\ \A a \in DOMAIN trace :
          trace[a] = FtDrop =>
             IF a = Len(trace) THEN pc = "create_ftcreate"
             ELSE trace[a + 1] = FtCreate
    /\ \A a \in DOMAIN trace :
          (trace[a].k = "create" /\ trace[a] # FtCreate) =>
             \E b \in 1..(a - 1) : trace[b] = FtCreate
    /\ (pc = "create_ftcreate" /\ lastOk) => FulltextIndex \notin db

C8_Witness ==
    /\ top = "create_indexes" /\ harness = "Open" /\ dropFailed
    /\ Len(trace) >= 2 /\ trace[1] = FtDrop /\ trace[2] = FtCreate

\* C9: when create_indexes is called twice in a row and the environment fails
\* no statement, the second call returns, prints no error, and leaves the set
\* of indexes it found, which is the five indexes, each present once.
C9_CreateIdempotent ==
    (top = "create_indexes" /\ prev = "create_clean" /\ CallEnded /\ ~faulted) =>
       /\ result = "returned"
       /\ ~caught /\ ~createFailed
       /\ db = startDb
       /\ db = IndexNames

C9_Witness ==
    /\ top = "create_indexes" /\ prev = "create_clean"
    /\ result = "returned" /\ ~faulted /\ calls = 2

\* C10: drop_indexes drops exactly the names create_indexes creates; in
\* demonstrate_queries, when no drop failed none of them exists while the
\* before-phase queries run, and when no create failed all of them exist while
\* the after-phase queries run.
C10_IndexSetsAgree ==
    /\ { DropOrder[k] : k \in DOMAIN DropOrder } = IndexNames
    /\ (InSuite /\ pc = "before" /\ ~dropFailed) => db \cap IndexNames = {}
    /\ (InSuite /\ pc = "after" /\ ~createFailed) => IndexNames \subseteq db

C10_Witness ==
    /\ InSuite /\ pc = "after" /\ i = NumQueries
    /\ ~dropFailed /\ ~createFailed /\ startDb = IndexNames

====
